---- MODULE Spec2Model ----
(***************************************************************************)
(* Model of usefull/dalee_cleanup.py: ImageSource (directory scan, lazy    *)
(* optionally-destructive decoding), ImageWriter (sequentially numbered    *)
(* outputs) and the driver loop of main.                                   *)
(*                                                                         *)
(* File names are sequences of one-character strings, paths are sequences  *)
(* of names relative to the directory they live in (source_path or         *)
(* output_path).  The codec (PIL) and the disk are external: a decode      *)
(* either succeeds, raises IndexError, or raises some other error; a save  *)
(* either succeeds or raises, possibly leaving a partial file.             *)
(***************************************************************************)
EXTENDS Integers, Sequences, FiniteSets, TLC

\* ------------------------------------------------------------------ bounds
\* Output indices that may already be present when the run starts.
MaxIndex == 3
\* Depth of nested _generate_source_list calls the interpreter allows.
RecursionLimit == 2

\* --------------------------------------------------------------- constants
\* Width of the zero padded counter in '{:03d}.png'.
FormatWidth == 3

\* ------------------------------------------------------------------- names
NameA      == <<"a", ".", "w", "e", "b", "p">>
NameB      == <<"b", ".", "w", "e", "b", "p">>
NameC      == <<"c", ".", "w", "e", "b", "p">>
NameD      == <<"d", ".", "w", "e", "b", "p">>
NameBak    == <<"x", ".", "w", "e", "b", "p", ".", "b", "a", "k">>
NameSub    == <<"s", "u", "b">>
NameHidden == <<".", "h", "i", "d">>

\* Files and directories a source tree may contain (paths below source_path).
TopFiles  == {<<NameA>>, <<NameB>>, <<NameBak>>}
SubDirs   == {<<NameSub>>, <<NameHidden>>}
DeepFiles == {<<NameSub, NameC>>, <<NameHidden, NameD>>}

NoPath == <<>>
Parent(p) == SubSeq(p, 1, Len(p) - 1)
Last(s) == s[Len(s)]

VARIABLES
    sourceExists,   \* os.path.exists(args.source_path)
    srcFiles,       \* paths of the regular files below source_path
    srcDirs,        \* paths of the directories below source_path
    outDirExists,   \* os.path.exists(args.output_path)
    outFiles,       \* names of the files in output_path
    recursive,      \* args.recursive
    destructive,    \* args.destructive
    pc,             \* position of main
    stack,          \* active calls of _generate_source_list, innermost last
    source_list,    \* ImageSource._source_list
    image_count,    \* ImageWriter._image_count
    path,           \* local `path` of the last __next__ call
    image,          \* `image` of main's loop: source path of the decoded image
    exc,            \* exception that ended the run ("None" while none did)
    decodeFailedOn, \* history: path whose decode raised, NoPath if none did
    targets,        \* history: image_path of every write_image call, in order
    nWritten,       \* history: number of write_image calls that returned
    source_list0,   \* history: _source_list as ImageSource.__init__ stored it
    srcFiles0,      \* history: srcFiles at startup
    outFiles0,      \* history: outFiles when the ImageWriter was constructed
    outDirExists0   \* history: outDirExists at startup

vars == <<sourceExists, srcFiles, srcDirs, outDirExists, outFiles, recursive,
          destructive, pc, stack, source_list, image_count, path, image, exc,
          decodeFailedOn, targets, nWritten, source_list0, srcFiles0,
          outFiles0, outDirExists0>>

\* ------------------------------------------------------------ pure helpers
\* str.split('.') : the list of segments between dots.
RECURSIVE SplitDot(_)
SplitDot(s) ==
    IF s = <<>> THEN << <<>> >>
    ELSE LET rest == SplitDot(Tail(s))
         IN  IF Head(s) = "."
             THEN << <<>> >> \o rest
             ELSE << <<Head(s)>> \o Head(rest) >> \o Tail(rest)

\* file.name.split('.')[-1] == 'webp'
IsWebp(name) == Last(SplitDot(name)) = <<"w", "e", "b", "p">>

\* file.name[0] == '.'
IsHidden(name) == name[1] = "."

\* Decimal digits of n, most significant first.
Digit(d) == CASE d = 0 -> "0" [] d = 1 -> "1" [] d = 2 -> "2" [] d = 3 -> "3"
              [] d = 4 -> "4" [] d = 5 -> "5" [] d = 6 -> "6" [] d = 7 -> "7"
              [] d = 8 -> "8" [] d = 9 -> "9"

RECURSIVE Digits(_)
Digits(n) == IF n < 10 THEN <<Digit(n)>>
             ELSE Digits(n \div 10) \o <<Digit(n % 10)>>

RECURSIVE ZeroPad(_, _)
ZeroPad(s, w) == IF Len(s) >= w THEN s ELSE ZeroPad(<<"0">> \o s, w)

\* '{:03d}.png'.format(n)
FormatName(n) == ZeroPad(Digits(n), FormatWidth) \o <<".", "p", "n", "g">>

\* ImageWriter._build_image_path for a given counter value.
BuildImagePath(count) == FormatName(count)

\* The while loop of ImageWriter.__init__: first counter value, starting at
\* count, whose path does not exist among files.
RECURSIVE Probe(_, _)
Probe(files, count) ==
    IF BuildImagePath(count) \in files THEN Probe(files, count + 1) ELSE count

\* os.scandir(p): the entries directly inside directory p.
Scandir(p) == {e \in srcFiles \cup srcDirs : Parent(e) = p}

\* ------------------------------------------------------------------- Init
TreeOK(fs, ds) == \A f \in fs : Len(f) = 1 \/ Parent(f) \in ds

Init ==
    /\ sourceExists \in BOOLEAN
    /\ srcFiles \in SUBSET (TopFiles \cup DeepFiles)
    /\ srcDirs \in SUBSET SubDirs
    /\ TreeOK(srcFiles, srcDirs)
    /\ ~sourceExists => srcFiles = {} /\ srcDirs = {}
    /\ outDirExists \in BOOLEAN
    /\ \E idx \in SUBSET (1 .. MaxIndex) :
          outFiles = {FormatName(i) : i \in idx}
    /\ ~outDirExists => outFiles = {}
    /\ recursive \in BOOLEAN
    /\ destructive \in BOOLEAN
    /\ pc = "start"
    /\ stack = <<>>
    /\ source_list = <<>>
    /\ image_count = 0
    /\ path = NoPath
    /\ image = NoPath
    /\ exc = "None"
    /\ decodeFailedOn = NoPath
    /\ targets = <<>>
    /\ nWritten = 0
    /\ source_list0 = <<>>
    /\ srcFiles0 = srcFiles
    /\ outFiles0 = outFiles
    /\ outDirExists0 = outDirExists

\* ------------------------------------------------------- ImageSource scan
\* One activation of _generate_source_list(source_path, recursive): the
\* entries os.scandir still has to yield and the input_list built so far.
Frame(p) == [source_path |-> p, todo |-> Scandir(p), input_list |-> <<>>]

Top == stack[Len(stack)]
ReplaceTop(f) == [stack EXCEPT ![Len(stack)] = f]

\* Variant without the existence check: construction always goes on to scan.
SourcePathMissing_Unchecked == FALSE

\* The guard of ImageSource.__init__: the source path is missing.
SourcePathMissing == ~sourceExists

\* ImageSource.__init__ up to the call of _generate_source_list.
ImageSourceInit ==
    /\ pc = "start"
    /\ IF SourcePathMissing
       THEN /\ pc' = "failed"
            /\ exc' = "OSError"
            /\ stack' = stack
       ELSE /\ pc' = "scan"
            /\ exc' = exc
            /\ stack' = <<Frame(<<>>)>>
    /\ UNCHANGED <<sourceExists, srcFiles, srcDirs, outDirExists, outFiles,
                   recursive, destructive, source_list, image_count, path,
                   image, decodeFailedOn, targets, nWritten, source_list0, srcFiles0,
                   outFiles0, outDirExists0>>

\* The directory the recursive call of line 115 is given: the caller's own
\* source_path, not the path of the subdirectory just found.
RecursionTarget(frame, file) == frame.source_path

\* One iteration of `for file in os.scandir(source_path)`; scandir yields
\* the entries in arbitrary order.
ScanEntry ==
    /\ pc = "scan"
    /\ Top.todo # {}
    /\ \E file \in Top.todo :
         LET name == Last(file)
             file_path == Top.source_path \o <<name>>
             rest == [Top EXCEPT !.todo = @ \ {file}]
         IN  IF file \in srcDirs
             THEN IF recursive /\ ~IsHidden(name)
                  THEN IF Len(stack) >= RecursionLimit
                       THEN /\ pc' = "failed"
                            /\ exc' = "RecursionError"
                            /\ stack' = <<>>
                       ELSE /\ pc' = pc
                            /\ exc' = exc
                            /\ stack' = ReplaceTop(rest)
                                   \o <<Frame(RecursionTarget(Top, file))>>
                  ELSE /\ pc' = pc
                       /\ exc' = exc
                       /\ stack' = ReplaceTop(rest)
             ELSE /\ pc' = pc
                  /\ exc' = exc
                  /\ stack' = ReplaceTop(
                        IF IsWebp(name)
                        THEN [rest EXCEPT !.input_list = Append(@, file_path)]
                        ELSE rest)
    /\ UNCHANGED <<sourceExists, srcFiles, srcDirs, outDirExists, outFiles,
                   recursive, destructive, source_list, image_count, path,
                   image, decodeFailedOn, targets, nWritten, source_list0, srcFiles0,
                   outFiles0, outDirExists0>>

\* `return input_list`: to the calling activation, which extends its own
\* list, or to ImageSource.__init__, which stores it as _source_list.
ScanReturn ==
    /\ pc = "scan"
    /\ Top.todo = {}
    /\ IF Len(stack) = 1
       THEN /\ source_list' = Top.input_list
            /\ source_list0' = Top.input_list
            /\ stack' = <<>>
            /\ pc' = "writer_init"
       ELSE LET caller == stack[Len(stack) - 1]
            IN  /\ stack' = [SubSeq(stack, 1, Len(stack) - 1)
                               EXCEPT ![Len(stack) - 1] =
                                 [caller EXCEPT !.input_list =
                                                  @ \o Top.input_list]]
                /\ source_list' = source_list
                /\ source_list0' = source_list0
                /\ pc' = pc
    /\ UNCHANGED <<sourceExists, srcFiles, srcDirs, outDirExists, outFiles,
                   recursive, destructive, image_count, path, image, exc,
                   decodeFailedOn, targets, nWritten, srcFiles0, outFiles0,
                   outDirExists0>>

\* ------------------------------------------------------------ ImageWriter
\* ImageWriter.__init__: create the directory if absent, then probe
\* 001.png, 002.png, ... for the first path that does not exist.
WriterInit ==
    /\ pc = "writer_init"
    /\ outDirExists' = TRUE
    /\ image_count' = Probe(outFiles, 1)
    /\ outFiles0' = outFiles
    /\ pc' = "loop"
    /\ UNCHANGED <<sourceExists, srcFiles, srcDirs, outFiles, recursive,
                   destructive, stack, source_list, path, image, exc,
                   decodeFailedOn, targets, nWritten, source_list0, srcFiles0,
                   outDirExists0>>

\* ------------------------------------------------------ ImageSource.__next__
\* What Image.open(path).convert('RGB') may do.
DecodeOutcomes == {"ok", "IndexError", "Error"}

\* Variant that removes the file before decoding it.
DeletesSource_BeforeDecode(outcome) == destructive

\* os.remove(path) is reached: the flag is set and the decode returned.
DeletesSource(outcome) == destructive /\ outcome = "ok"

\* One pull of the for loop of main.  An IndexError leaving the try block,
\* from pop() on the empty list or from the codec, becomes StopIteration and
\* ends the loop normally; any other error propagates out of main.
NextImage ==
    /\ pc = "loop"
    /\ IF source_list = <<>>
       THEN /\ pc' = "done"
            /\ UNCHANGED <<source_list, path, image, srcFiles, exc,
                           decodeFailedOn>>
       ELSE \E outcome \in DecodeOutcomes :
              /\ path' = Last(source_list)
              /\ source_list' = SubSeq(source_list, 1, Len(source_list) - 1)
              /\ srcFiles' = IF DeletesSource(outcome)
                             THEN srcFiles \ {path'} ELSE srcFiles
              /\ image' = IF outcome = "ok" THEN path' ELSE image
              /\ decodeFailedOn' = IF outcome = "ok" THEN decodeFailedOn
                                   ELSE path'
              /\ exc' = IF outcome = "Error" THEN "DecodeError" ELSE exc
              /\ pc' = CASE outcome = "ok" -> "write"
                         [] outcome = "IndexError" -> "done"
                         [] outcome = "Error" -> "failed"
    /\ UNCHANGED <<sourceExists, srcDirs, outDirExists, outFiles, recursive,
                   destructive, stack, image_count, targets, nWritten,
                   source_list0, srcFiles0, outFiles0, outDirExists0>>

\* -------------------------------------------------- ImageWriter.write_image
\* Variant in which a failed save is swallowed and the loop goes on.
PcAfterWrite_Swallow(saved) == "loop"

\* Where main continues after write_image: the next pull, or out of main
\* with the error image.save raised.
PcAfterWrite(saved) == IF saved THEN "loop" ELSE "failed"

\* The loop body of main.  A failed save may leave a partial file behind.
WriteImage ==
    /\ pc = "write"
    /\ LET image_path == BuildImagePath(image_count)
       IN  /\ targets' = Append(targets, image_path)
           /\ \E saved \in BOOLEAN :
                /\ pc' = PcAfterWrite(saved)
                /\ IF saved
                   THEN /\ outFiles' = outFiles \cup {image_path}
                        /\ image_count' = image_count + 1
                        /\ nWritten' = nWritten + 1
                        /\ exc' = exc
                   ELSE /\ outFiles' \in {outFiles, outFiles \cup {image_path}}
                        /\ image_count' = image_count
                        /\ nWritten' = nWritten
                        /\ exc' = "WriteError"
    /\ UNCHANGED <<sourceExists, srcFiles, srcDirs, outDirExists, recursive,
                   destructive, stack, source_list, path, image,
                   decodeFailedOn, source_list0, srcFiles0, outFiles0, outDirExists0>>

\* ------------------------------------------------------------------- main
Next ==
    \/ ImageSourceInit
    \/ ScanEntry
    \/ ScanReturn
    \/ WriterInit
    \/ NextImage
    \/ WriteImage

Spec == Init /\ [][Next]_vars

TypeOK ==
    /\ pc \in {"start", "scan", "writer_init", "loop", "write", "done", "failed"}
    /\ exc \in {"None", "OSError", "RecursionError", "DecodeError", "WriteError"}
    /\ Len(stack) <= RecursionLimit
    /\ nWritten <= Len(targets)

\* ------------------------------------------------------------- properties
\* Number of occurrences of x in sequence s.
Occurrences(s, x) == Cardinality({i \in 1 .. Len(s) : s[i] = x})

SeqToSet(s) == {s[i] : i \in 1 .. Len(s)}

\* Some directory on the way from source_path to f is hidden.
HasHiddenAncestor(f) == \E i \in 1 .. Len(f) - 1 : IsHidden(f[i])

\* The call of _generate_source_list made by ImageSource.__init__ is over:
\* it returned the list, or it raised.
ScanEnded == pc = "writer_init" \/ exc = "RecursionError"

\* The ImageWriter exists and write_image has not been called yet.
WriterFresh == image_count > 0 /\ targets = <<>>

\* Source files removed since startup.
Deleted == srcFiles0 \ srcFiles

\* C1 (as claimed): no write_image call targets a path that already existed
\* in the output directory when the ImageWriter was constructed.
C1_NeverWritesPreexisting ==
    \A i \in 1 .. Len(targets) : targets[i] \notin outFiles0

\* C2 (as claimed): once the scan is over, a matching file in a subdirectory
\* is in the list exactly once if recursive is set and no ancestor directory
\* is hidden, and not at all otherwise.
C2_SubdirFilesListed ==
    ScanEnded =>
        \A f \in srcFiles0 :
            (Len(f) > 1 /\ IsWebp(Last(f))) =>
                Occurrences(source_list0, f) =
                    (IF recursive /\ ~HasHiddenAncestor(f) THEN 1 ELSE 0)

\* C3 (as claimed): a run over an existing source directory in which no
\* decode and no write failed ends normally, with the remaining list empty.
C3_RunTerminates ==
    (/\ pc \in {"done", "failed"}
     /\ sourceExists
     /\ decodeFailedOn = NoPath
     /\ exc # "WriteError")
    => (pc = "done" /\ source_list = <<>>)

\* C4: a source file disappears only in destructive mode, in the pull that
\* decoded it successfully; a path whose decode raised is still on disk.
C4_DeleteOnlyAfterDecode ==
    [][ /\ \A f \in srcFiles \ srcFiles' :
              destructive /\ pc = "loop" /\ pc' = "write" /\ image' = f
        /\ decodeFailedOn' # NoPath => decodeFailedOn' \in srcFiles' ]_vars

\* C4 witness: destructive run in which one image was decoded and its file
\* removed, and a later decode raised.
C4_Witness ==
    /\ destructive
    /\ image # NoPath /\ image \notin srcFiles
    /\ decodeFailedOn # NoPath /\ decodeFailedOn \in srcFiles

\* C5 (as claimed): after a run that ended normally, destructive mode leaves
\* none of the scanned files on disk and non-destructive mode leaves the
\* source tree as it was.
C5_SourcesAfterRun ==
    pc = "done" =>
        IF destructive
        THEN SeqToSet(source_list0) \cap srcFiles = {}
        ELSE srcFiles = srcFiles0

\* C6 (as claimed): after a non-recursive run over a flat directory that
\* ended normally, the distinct output paths written are as many as the
\* matching source files, each of which was scanned exactly once.
C6_OneOutputPerMatch ==
    (pc = "done" /\ ~recursive /\ srcDirs = {}) =>
        LET matching == {f \in srcFiles0 : IsWebp(Last(f))}
        IN  /\ \A f \in matching : Occurrences(source_list0, f) = 1
            /\ SeqToSet(source_list0) = matching
            /\ nWritten = Cardinality(matching)
            /\ Cardinality(SeqToSet(targets)) = Cardinality(matching)

\* C7 (as claimed): a freshly constructed ImageWriter starts numbering at
\* the number of numbered outputs in the directory plus one.
C7_StartsAfterCount ==
    WriterFresh => image_count = Cardinality(outFiles0) + 1

\* C8: while the source path does not exist the run is at its start or has
\* failed with OSError; the output directory is neither created nor written
\* to and no source file is removed.
C8_MissingSourceFailsFirst ==
    ~sourceExists =>
        /\ pc \in {"start", "failed"}
        /\ pc = "failed" => exc = "OSError"
        /\ outDirExists = outDirExists0
        /\ outFiles = outFiles0
        /\ targets = <<>>
        /\ srcFiles = srcFiles0

\* C8 witness: the run failed on a missing source and no output directory
\* exists.
C8_Witness ==
    ~sourceExists /\ pc = "failed" /\ exc = "OSError" /\ ~outDirExists

\* C9 (as claimed): once a decode has raised, the run is a failure.
C9_DecodeErrorFailsRun ==
    decodeFailedOn # NoPath => pc = "failed"

\* C10: in destructive mode the source files removed outnumber the outputs
\* written by at most one.
C10_AtMostOneInFlight ==
    destructive => Cardinality(Deleted) - nWritten <= 1

\* C10 witness: a destructive run aborted by a failed save after an earlier
\* image was written: two files removed, one output.
C10_Witness ==
    /\ destructive
    /\ pc = "failed" /\ exc = "WriteError"
    /\ nWritten = 1
    /\ Cardinality(Deleted) = 2

====
